---- MODULE Spec2Model ----
(***************************************************************************)
(* Model of dataverse_sdk/schemas/client.py: the pydantic entities         *)
(* (Attribute, Sensor, OntologyClass, Ontology, DataConfig, Project,       *)
(* Dataset), their validators, and Project.create_dataset, which looks up  *)
(* the process-wide client and delegates to it.                            *)
(***************************************************************************)
EXTENDS Integers, Sequences, FiniteSets, TLC

VARIABLES
    config_client,  \* state of the process-wide `config._client` lookup
    project,        \* the Project on which create_dataset is called (self)
    calls,          \* number of Project.create_dataset calls made
    invocations,    \* number of client.create_dataset invocations made
    lastConfig,     \* config_client as it was when the last call started
    lastArgs,       \* the caller's arguments of the last call
    lastRequest,    \* keyword arguments the client received in the last call
    lastReply,      \* what the client did in the last call (returned / raised)
    outcome,        \* what the caller of the last call observed
    entity,         \* entity class under construction (pure specifications)
    raw,            \* the input mapping given to the constructor
    built,          \* result of the construction: ok, value, errors
    dumped          \* result of re-serialising the constructed value (.dict())

vars == <<config_client, project, calls, invocations, lastConfig, lastArgs,
          lastRequest, lastReply, outcome, entity, raw, built, dumped>>

callVars == <<config_client, project, calls, invocations, lastConfig, lastArgs,
              lastRequest, lastReply, outcome>>

pureVars == <<entity, raw, built, dumped>>

(***************************************************************************)
(* Bounds                                                                  *)
(***************************************************************************)
MaxCalls == 3
MaxSensors == 2

(***************************************************************************)
(* Python values                                                           *)
(***************************************************************************)
None == "None"

NoRecord == [none |-> TRUE]

\* SensorType lives in schemas/common.py; its members are string constants.
SensorType == {"camera", "lidar"}

cam0 == [name |-> "cam0", type |-> "camera"]
lidar0 == [name |-> "lidar0", type |-> "lidar"]

SensorPool == {cam0, lidar0}

RECURSIVE SeqsUpTo(_, _)
SeqsUpTo(S, n) ==
    IF n = 0 THEN {<<>>}
    ELSE LET shorter == SeqsUpTo(S, n - 1)
         IN  shorter \cup {Append(s, x) : s \in {t \in shorter : Len(t) = n - 1}, x \in S}

Range(s) == {s[i] : i \in 1..Len(s)}

(***************************************************************************)
(* Project.create_dataset                                                  *)
(***************************************************************************)
ConfigStates == {"no_module", "no_attr", "unset", "client"}

CollabExceptions == {"RuntimeError", "TimeoutError"}

Datasets == [id : {7, 8}, status : {"processing", "ready"}, name : {"ds1"}]

Replies == [kind : {"returns"}, dataset : Datasets, exc : {None}]
           \cup [kind : {"raises"}, dataset : {NoRecord}, exc : CollabExceptions]

Projects ==
    { [id |-> None, name |-> "P", ontology |-> [name |-> "O"], sensors |-> ss]
        : ss \in {<<cam0>>, <<cam0, lidar0>>} }

\* the keyword arguments a caller passes; the defaulted ones take their defaults
Args ==
    [ name : {"ds1"}, data_source : {"sdk"},
      sensors : SeqsUpTo(SensorPool, MaxSensors),
      type : {"2d_bounding_box"}, annotation_format : {"coco"},
      storage_url : {"s3://bucket"}, data_folder : {"raw/"},
      container_name : {None}, sas_token : {None},
      sequential : BOOLEAN, generate_metadata : {FALSE},
      description : {None} ]

Returned(v) == [kind |-> "returned", value |-> v, exc |-> None, cause |-> None, context |-> None]

\* `raise X` inside an `except ... as e` block chains e as __context__;
\* __cause__ is set only by `raise X from e`.
Raised(e, cause, context) ==
    [kind |-> "raised", value |-> NoRecord, exc |-> e, cause |-> cause, context |-> context]

\* the try block: `import config; client = config._client`
get_client(cfg) ==
    CASE cfg = "no_module" -> [ok |-> FALSE, client |-> None, error |-> "ModuleNotFoundError"]
      [] cfg = "no_attr"   -> [ok |-> FALSE, client |-> None, error |-> "AttributeError"]
      [] cfg = "unset"     -> [ok |-> TRUE, client |-> None, error |-> None]
      [] OTHER             -> [ok |-> TRUE, client |-> "client", error |-> None]

client_kwargs_swapped(self, args) ==
    [ name |-> args.name, data_source |-> args.data_source, project |-> self,
      sensors |-> args.sensors, type |-> args.type,
      annotation_format |-> args.annotation_format,
      storage_url |-> args.storage_url, container_name |-> args.container_name,
      data_folder |-> args.data_folder, sas_token |-> args.sas_token,
      sequential |-> args.generate_metadata, generate_metadata |-> args.sequential,
      description |-> args.description ]

\* the keyword arguments of client.create_dataset(...)
client_kwargs(self, args) ==
    [ name |-> args.name, data_source |-> args.data_source, project |-> self,
      sensors |-> args.sensors, type |-> args.type,
      annotation_format |-> args.annotation_format,
      storage_url |-> args.storage_url, container_name |-> args.container_name,
      data_folder |-> args.data_folder, sas_token |-> args.sas_token,
      sequential |-> args.sequential, generate_metadata |-> args.generate_metadata,
      description |-> args.description ]

create_dataset_retry(self, args, cfg, reply) ==
    LET got == get_client(cfg) IN
    IF ~got.ok
      THEN [outcome |-> Raised("ClientConnectionError", None, got.error),
            request |-> NoRecord, invoked |-> 0, self |-> self]
    ELSE IF got.client = None
      THEN [outcome |-> Raised("AttributeError", None, None),
            request |-> NoRecord, invoked |-> 0, self |-> self]
    ELSE IF reply.kind = "raises"
      THEN [outcome |-> Raised(reply.exc, None, None),
            request |-> client_kwargs(self, args), invoked |-> 2, self |-> self]
    ELSE [outcome |-> Returned(reply.dataset),
          request |-> client_kwargs(self, args), invoked |-> 1, self |-> self]

\* Project.create_dataset: the result the caller sees, the request the client
\* received, how many times the client was invoked, and self after the call
create_dataset(self, args, cfg, reply) ==
    LET got == get_client(cfg) IN
    IF ~got.ok
      THEN [outcome |-> Raised("ClientConnectionError", None, got.error),
            request |-> NoRecord, invoked |-> 0, self |-> self]
    ELSE IF got.client = None
      \* None.create_dataset(...) outside the try block
      THEN [outcome |-> Raised("AttributeError", None, None),
            request |-> NoRecord, invoked |-> 0, self |-> self]
    ELSE IF reply.kind = "raises"
      \* the call is outside the try block: the exception propagates as it is
      THEN [outcome |-> Raised(reply.exc, None, None),
            request |-> client_kwargs(self, args), invoked |-> 1, self |-> self]
    ELSE [outcome |-> Returned(reply.dataset),
          request |-> client_kwargs(self, args), invoked |-> 1, self |-> self]

IdlePure ==
    /\ entity = "none"
    /\ raw = NoRecord
    /\ built = NoRecord
    /\ dumped = NoRecord

Init ==
    /\ config_client \in ConfigStates
    /\ project \in Projects
    /\ calls = 0
    /\ invocations = 0
    /\ lastConfig = None
    /\ lastArgs = NoRecord
    /\ lastRequest = NoRecord
    /\ lastReply = NoRecord
    /\ outcome = NoRecord
    /\ IdlePure

\* the session sets config._client
InitClient ==
    /\ config_client # "client"
    /\ config_client' = "client"
    /\ UNCHANGED <<project, calls, invocations, lastConfig, lastArgs,
                   lastRequest, lastReply, outcome>>
    /\ UNCHANGED pureVars

CallCreateDataset ==
    /\ calls < MaxCalls
    /\ \E args \in Args, reply \in Replies :
         LET r == create_dataset(project, args, config_client, reply) IN
         /\ calls' = calls + 1
         /\ invocations' = invocations + r.invoked
         /\ lastConfig' = config_client
         /\ lastArgs' = args
         /\ lastRequest' = r.request
         /\ lastReply' = IF r.invoked > 0 THEN reply ELSE NoRecord
         /\ outcome' = r.outcome
         /\ project' = r.self
    /\ UNCHANGED config_client
    /\ UNCHANGED pureVars

Next == InitClient \/ CallCreateDataset

Spec == Init /\ [][Next]_vars

(***************************************************************************)
(* Claims about Project.create_dataset                                     *)
(***************************************************************************)

\* C1: a call with an empty `sensors` list (client initialised) fails with a
\* ValidationError and the client's create_dataset is not invoked.
C1_EmptySensorsRejected ==
    (calls > 0 /\ lastConfig = "client" /\ lastArgs.sensors = <<>>)
        => /\ outcome.kind = "raised"
           /\ outcome.exc = "ValidationError"
           /\ lastRequest = NoRecord

\* C2: when the client's create_dataset raises, the caller observes a
\* ClientConnectionError whose cause is the original exception.
C2_CollaboratorFailureWrapped ==
    (calls > 0 /\ lastReply # NoRecord /\ lastReply.kind = "raises")
        => /\ outcome.kind = "raised"
           /\ outcome.exc = "ClientConnectionError"
           /\ lastReply.exc \in {outcome.cause, outcome.context}

\* C3: with the process-wide client not initialised (module missing, no
\* `_client`, or `_client` None) the call fails with ClientConnectionError and
\* the client is not invoked; and whatever the state of the process-wide
\* client, a call in which the client itself does not raise (that case is
\* C2's) ends in a Dataset, a ClientConnectionError or a ValidationError.
C3_UninitialisedClientFailsFast ==
    calls > 0 =>
        /\ lastConfig # "client" =>
               /\ outcome.kind = "raised"
               /\ outcome.exc = "ClientConnectionError"
               /\ lastRequest = NoRecord
        /\ lastReply = NoRecord \/ lastReply.kind = "returns" =>
               \/ outcome.kind = "returned"
               \/ outcome.exc \in {"ClientConnectionError", "ValidationError"}

\* C6: a call (client initialised) whose `sensors` holds a sensor that is not
\* one of the Project's sensors fails with a ValidationError without the
\* client being invoked, so every request that reaches the client carries
\* only sensors of the Project.  (That the list is not empty is C1.)
C6_OnlyKnownSensorsReachClient ==
    /\ (calls > 0 /\ lastConfig = "client"
           /\ ~(Range(lastArgs.sensors) \subseteq Range(project.sensors)))
          => /\ outcome.kind = "raised"
             /\ outcome.exc = "ValidationError"
             /\ lastRequest = NoRecord
    /\ lastRequest # NoRecord
          => Range(lastRequest.sensors) \subseteq Range(project.sensors)

\* C7: when the client returns a Dataset D, create_dataset returns exactly D,
\* and the client received the caller's arguments unchanged with `project`
\* bound to the Project the method was called on.
C7_ReturnsDatasetUnmodified ==
    (calls > 0 /\ lastReply # NoRecord /\ lastReply.kind = "returns")
        => /\ outcome = Returned(lastReply.dataset)
           /\ lastRequest.project = project
           /\ \A k \in DOMAIN lastArgs : lastRequest[k] = lastArgs[k]
           /\ DOMAIN lastRequest = DOMAIN lastArgs \cup {"project"}

C7_Witness ==
    /\ calls > 0
    /\ lastReply # NoRecord
    /\ lastReply.kind = "returns"
    /\ outcome.kind = "returned"
    /\ outcome.value.id = 7
    /\ lastArgs.sequential

\* C10: each call of create_dataset invokes the client at most once, so after
\* N calls the client has been invoked at most N times, and the call leaves
\* the Project as it was.
C10_NoRetry ==
    /\ invocations <= calls
    /\ [][ /\ invocations' <= calls'
           /\ calls' = calls + 1 =>
                /\ invocations' \in {invocations, invocations + 1}
                /\ project' = project ]_vars

C10_Witness ==
    /\ calls = MaxCalls
    /\ invocations = MaxCalls
    /\ lastReply.kind = "raises"

(***************************************************************************)
(* Entity construction (pydantic BaseModel validation)                     *)
(*                                                                         *)
(* A Python value is a tagged record; an input mapping is a record whose   *)
(* fields are Absent when the key is not given.  A construction yields     *)
(* ok, the errors (pydantic's `loc` and error type) and the parsed value.  *)
(***************************************************************************)
MaxOptions == 2
MaxColorLen == 8
MaxClasses == 2

Absent == [t |-> "absent"]
PyNone == [t |-> "none"]
PyStr(s) == [t |-> "str", v |-> s]
PyInt(n) == [t |-> "int", v |-> n]
PyBool(b) == [t |-> "bool", v |-> b]
PyList(items) == [t |-> "list", v |-> items]

IdleCall ==
    /\ config_client = "client"
    /\ project \in {p \in Projects : Len(p.sensors) = 1}
    /\ calls = 0
    /\ invocations = 0
    /\ lastConfig = None
    /\ lastArgs = NoRecord
    /\ lastRequest = NoRecord
    /\ lastReply = NoRecord
    /\ outcome = NoRecord

Err(loc, type) == [loc |-> loc, type |-> type]

\* errors of a nested value are reported under the path of the field holding it
Prefixed(path, errors) == {Err(path \o e.loc, e.type) : e \in errors}

Result(errors, value) ==
    [ok |-> errors = {}, errors |-> errors, value |-> IF errors = {} THEN value ELSE NoRecord]

\* a required field that takes its value as given
required_field(m, f) == IF m[f] = Absent THEN {Err(<<f>>, "value_error.missing")} ELSE {}

\* Python truthiness of None and of a list
Truthy(v) == v.t = "list" /\ Len(v.v) > 0

(*------------------------------ AttributeOption --------------------------*)
validate_AttributeOption(o) ==
    Result(required_field(o, "value"), o)

(*------------------------------ Attribute --------------------------------*)
\* AttributeType lives in schemas/common.py: string constants, OPTION among them
AttributeType == {"boolean", "option", "number", "text"}
AttributeType_OPTION == "option"

\* the items of a list; nothing to iterate when the value is no list
ItemsOf(v) == IF v.t = "list" THEN v.v ELSE <<>>

\* Optional[list[X]] = None: absent or None parses to None, a list is parsed
\* item by item (`items` holds the result of validating each item), each
\* error under (field, index)
validate_list(m, f, items) ==
    IF m[f] \in {Absent, PyNone} THEN Result({}, PyNone)
    ELSE LET errors == UNION {Prefixed(<<f, i - 1>>, items[i].errors) : i \in 1..Len(items)}
         IN  Result(errors, PyList([i \in 1..Len(items) |-> items[i].value]))

\* values.get("options"): None when the field is unset or failed to validate
values_get(values, f) == IF values[f] = Absent THEN PyNone ELSE values[f]

option_data_validator_none_only(value, values) ==
    ~(value = AttributeType_OPTION /\ values_get(values, "options") = PyNone)

\* @validator("type"): TRUE when the validator returns, FALSE when it raises
option_data_validator(value, values) ==
    ~(value = AttributeType_OPTION /\ ~Truthy(values_get(values, "options")))

\* fields are validated in declaration order: name, options, type; `values`
\* holds the fields that validated so far
validate_Attribute(a) ==
    LET nameErrors == required_field(a, "name")
        options == validate_list(a, "options",
                       [i \in 1..Len(ItemsOf(a.options)) |->
                           validate_AttributeOption(ItemsOf(a.options)[i])])
        values == [name |-> IF nameErrors = {} THEN a.name ELSE Absent,
                   options |-> IF options.ok THEN options.value ELSE Absent]
        typeErrors ==
            IF a.type = Absent THEN {Err(<<"type">>, "value_error.missing")}
            ELSE IF a.type.v \notin AttributeType THEN {Err(<<"type">>, "type_error.enum")}
            ELSE IF ~option_data_validator(a.type.v, values) THEN {Err(<<"type">>, "value_error")}
            ELSE {}
    IN  Result(nameErrors \cup options.errors \cup typeErrors,
               [name |-> a.name, options |-> options.value, type |-> a.type])

OptionInputs == {[value |-> PyStr("red")], [value |-> PyStr("green")], [value |-> Absent]}

AttributeInputs ==
    [ name : {PyStr("colour"), Absent},
      type : {PyStr(t) : t \in AttributeType \cup {"bogus"}} \cup {Absent},
      options : {Absent, PyNone} \cup {PyList(s) : s \in SeqsUpTo(OptionInputs, MaxOptions)} ]

InitAttribute ==
    /\ IdleCall
    /\ entity = "Attribute"
    /\ raw \in AttributeInputs
    /\ built = NoRecord
    /\ dumped = NoRecord

ConstructAttribute ==
    /\ entity = "Attribute"
    /\ built = NoRecord
    /\ built' = validate_Attribute(raw)
    /\ UNCHANGED <<entity, raw, dumped>>
    /\ UNCHANGED callVars

SpecAttribute == InitAttribute /\ [][ConstructAttribute]_vars

\* the other fields of the input are valid: a name, a member of AttributeType,
\* and option items that are themselves valid
OtherFieldsValid(a) ==
    /\ a.name # Absent
    /\ a.type # Absent
    /\ a.type.v \in AttributeType
    /\ a.options.t = "list" => \A i \in 1..Len(a.options.v) : a.options.v[i].value # Absent

OptionsAbsentOrEmpty(a) == a.options \in {Absent, PyNone, PyList(<<>>)}

\* C4: an Attribute of type OPTION fails to construct exactly when `options`
\* is absent (or None) or an empty list; an Attribute of any other type never
\* fails because `options` is absent or empty.
C4_OptionsRequiredIffOption ==
    (entity = "Attribute" /\ built # NoRecord) =>
        /\ (OtherFieldsValid(raw) /\ raw.type.v = AttributeType_OPTION)
               => (~built.ok <=> OptionsAbsentOrEmpty(raw))
        /\ (OtherFieldsValid(raw) /\ raw.type.v # AttributeType_OPTION)
               => built.ok
        /\ (raw.type # Absent /\ raw.type.v # AttributeType_OPTION /\ OptionsAbsentOrEmpty(raw))
               => \A e \in built.errors : e.loc \in {<<"name">>, <<"type">>}
                                          /\ e.type # "value_error"

C4_Witness ==
    /\ entity = "Attribute"
    /\ built # NoRecord
    /\ ~built.ok
    /\ raw.name # Absent
    /\ raw.type = PyStr(AttributeType_OPTION)
    /\ raw.options = PyList(<<>>)

(*------------------------------ Sensor -----------------------------------*)
validate_Sensor(x) ==
    LET typeErrors ==
            IF x.type = Absent THEN {Err(<<"type">>, "value_error.missing")}
            ELSE IF x.type.v \notin SensorType THEN {Err(<<"type">>, "type_error.enum")}
            ELSE {}
    IN  Result(required_field(x, "name") \cup typeErrors, x)

(*------------------------------ OntologyClass ----------------------------*)
\* A colour string is a sequence of characters over an alphabet with one
\* character of each class the validator tells apart.
ColorAlphabet == {"#", "a", "_", " "}
ColorDigits == 6

IsAlnum(c) == c = "a"          \* [a-zA-Z0-9]
IsWord(c) == c \in {"a", "_"}  \* \w

\* str.startswith("#")
startswith_hash(s) == Len(s) > 0 /\ s[1] = "#"

\* str.lstrip("#"): every leading "#" is removed
RECURSIVE lstrip_hash(_)
lstrip_hash(s) == IF Len(s) > 0 /\ Head(s) = "#" THEN lstrip_hash(Tail(s)) ELSE s

\* re.search(r"\b[a-zA-Z0-9]{6}\b", s): somewhere in s, six alphanumerics
\* with a word boundary before the first and after the last
re_search_six(s) ==
    \E i \in 1..(Len(s) - ColorDigits + 1) :
        /\ \A j \in i..(i + ColorDigits - 1) : IsAlnum(s[j])
        /\ i = 1 \/ ~IsWord(s[i - 1])
        /\ i + ColorDigits - 1 = Len(s) \/ ~IsWord(s[i + ColorDigits])

\* @validator("color"): TRUE when the validator returns, FALSE when it raises
color_validator(value) ==
    ~(~startswith_hash(value) \/ ~re_search_six(lstrip_hash(value)))

validate_OntologyClass(c) ==
    LET colorErrors ==
            IF c.color = Absent THEN {Err(<<"color">>, "value_error.missing")}
            ELSE IF ~color_validator(c.color.v) THEN {Err(<<"color">>, "value_error")}
            ELSE {}
        attributes == validate_list(c, "attributes",
                       [k \in 1..Len(ItemsOf(c.attributes)) |->
                           validate_Attribute(ItemsOf(c.attributes)[k])])
    IN  Result(required_field(c, "name") \cup colorErrors \cup required_field(c, "rank")
                 \cup attributes.errors,
               [name |-> c.name, color |-> c.color, rank |-> c.rank,
                attributes |-> attributes.value])

ColorInputs == SeqsUpTo(ColorAlphabet, MaxColorLen)

InitColor ==
    /\ IdleCall
    /\ entity = "OntologyClass"
    /\ raw \in [name : {PyStr("car")}, color : {PyStr(s) : s \in ColorInputs},
                rank : {PyInt(1)}, attributes : {Absent}]
    /\ built = NoRecord
    /\ dumped = NoRecord

ConstructOntologyClass ==
    /\ entity = "OntologyClass"
    /\ built = NoRecord
    /\ built' = validate_OntologyClass(raw)
    /\ UNCHANGED <<entity, raw, dumped>>
    /\ UNCHANGED callVars

SpecColor == InitColor /\ [][ConstructOntologyClass]_vars

\* ^#[0-9A-Za-z]{6}$
MatchesHashSix(s) ==
    /\ Len(s) = ColorDigits + 1
    /\ s[1] = "#"
    /\ \A j \in 2..Len(s) : IsAlnum(s[j])

\* C5: with the other fields valid, an OntologyClass constructs exactly when
\* `color` is one "#" followed by exactly six alphanumerics and nothing else.
C5_ColorAcceptedIffHashSix ==
    (entity = "OntologyClass" /\ built # NoRecord)
        => (built.ok <=> MatchesHashSix(raw.color.v))

(*------------------------------ Ontology ---------------------------------*)
\* image_type and pcd_type are optional members of enumerations of
\* schemas/common.py and are left unset here.
validate_Ontology_classes_unchecked(o) ==
    Result(required_field(o, "name"), [name |-> o.name, classes |-> o.classes])

validate_Ontology(o) ==
    LET classes == validate_list(o, "classes",
                       [i \in 1..Len(ItemsOf(o.classes)) |->
                           validate_OntologyClass(ItemsOf(o.classes)[i])])
    IN  Result(required_field(o, "name") \cup classes.errors,
               [name |-> o.name, classes |-> classes.value])

(*------------------------------ Project ----------------------------------*)
\* list[Sensor]: each item is validated as a Sensor
validate_sensors(m, f) ==
    validate_list(m, f, [j \in 1..Len(ItemsOf(m[f])) |-> validate_Sensor(ItemsOf(m[f])[j])])

\* ontology is a required model, its errors reported under the field;
\* sensors is a required list, for which absent and None are errors
validate_Project(p) ==
    LET ontology ==
            IF p.ontology = Absent
              THEN Result({Err(<<"ontology">>, "value_error.missing")}, NoRecord)
              ELSE LET r == validate_Ontology(p.ontology)
                   IN  Result(Prefixed(<<"ontology">>, r.errors), r.value)
        sensors ==
            IF p.sensors = Absent
              THEN Result({Err(<<"sensors">>, "value_error.missing")}, NoRecord)
            ELSE IF p.sensors = PyNone
              THEN Result({Err(<<"sensors">>, "type_error.none.not_allowed")}, NoRecord)
            ELSE validate_sensors(p, "sensors")
    IN  Result(required_field(p, "name") \cup ontology.errors \cup sensors.errors,
               [name |-> p.name, ontology |-> ontology.value, sensors |-> sensors.value])

hashSix == <<"#", "a", "a", "a", "a", "a", "a">>
ColorSamples == {hashSix, Tail(hashSix), <<"#">> \o hashSix}

textAttribute == [name |-> PyStr("note"), type |-> PyStr("text"), options |-> Absent]
optionAttribute ==
    [name |-> PyStr("kind"), type |-> PyStr("option"),
     options |-> PyList(<<[value |-> PyStr("red")]>>)]
optionlessAttribute == [name |-> PyStr("kind"), type |-> PyStr("option"), options |-> Absent]

ClassInputs ==
    [ name : {PyStr("car")}, color : {PyStr(c) : c \in ColorSamples}, rank : {PyInt(1)},
      attributes : {Absent, PyList(<<textAttribute>>),
                    PyList(<<optionAttribute, optionlessAttribute>>)} ]

OntologyInputs ==
    [ name : {PyStr("O")},
      classes : {Absent} \cup {PyList(s) : s \in SeqsUpTo(ClassInputs, MaxClasses)} ]

SensorInputs ==
    { [name |-> PyStr("cam0"), type |-> PyStr("camera")],
      [name |-> PyStr("cam0"), type |-> PyStr("sonar")],
      [name |-> Absent, type |-> PyStr("lidar")] }

ProjectInputs ==
    [ name : {PyStr("P")},
      ontology : OntologyInputs \cup {Absent},
      sensors : {Absent} \cup {PyList(s) : s \in SeqsUpTo(SensorInputs, MaxSensors)} ]

InitNested ==
    /\ IdleCall
    /\ \/ entity = "Ontology" /\ raw \in OntologyInputs
       \/ entity = "Project" /\ raw \in ProjectInputs
    /\ built = NoRecord
    /\ dumped = NoRecord

ConstructOntology ==
    /\ entity = "Ontology"
    /\ built = NoRecord
    /\ built' = validate_Ontology(raw)
    /\ UNCHANGED <<entity, raw, dumped>>
    /\ UNCHANGED callVars

ConstructProject ==
    /\ entity = "Project"
    /\ built = NoRecord
    /\ built' = validate_Project(raw)
    /\ UNCHANGED <<entity, raw, dumped>>
    /\ UNCHANGED callVars

NextNested == ConstructOntology \/ ConstructProject

SpecNested == InitNested /\ [][NextNested]_vars

\* what makes a nested input invalid, stated on the input itself
InvalidAttribute(a) ==
    \/ a.name = Absent
    \/ a.type = Absent
    \/ a.type.v \notin AttributeType
    \/ a.type.v = AttributeType_OPTION /\ OptionsAbsentOrEmpty(a)
    \/ a.options.t = "list" /\ \E i \in 1..Len(a.options.v) : a.options.v[i].value = Absent

InvalidClass(c) ==
    \/ c.name = Absent
    \/ c.color = Absent
    \/ ~color_validator(c.color.v)
    \/ c.rank = Absent
    \/ c.attributes.t = "list"
         /\ \E k \in 1..Len(c.attributes.v) : InvalidAttribute(c.attributes.v[k])

InvalidSensor(x) == x.name = Absent \/ x.type = Absent \/ x.type.v \notin SensorType

InvalidOntology(o) ==
    o.name = Absent \/ \E i \in 1..Len(ItemsOf(o.classes)) : InvalidClass(ItemsOf(o.classes)[i])

IsPrefix(path, loc) == Len(path) <= Len(loc) /\ SubSeq(loc, 1, Len(path)) = path

\* the errors name exactly the invalid items of the list at `path`
ErrorsNameItems(errors, path, n, invalid) ==
    \A i \in 1..n :
        i \in invalid <=> \E e \in errors : IsPrefix(path \o <<i - 1>>, e.loc)

InvalidClasses(o) ==
    {i \in 1..Len(ItemsOf(o.classes)) : InvalidClass(ItemsOf(o.classes)[i])}

InvalidSensors(items) == {j \in 1..Len(items) : InvalidSensor(items[j])}

\* C9: an Ontology with an invalid class, and a Project with an invalid
\* ontology or an invalid sensor, fails to construct; a constructed Ontology
\* or Project holds no invalid nested entity; and the errors name the
\* position (field path and index) of every invalid nested entity.
C9_NestedValidationPropagates ==
    /\ (entity = "Ontology" /\ built # NoRecord) =>
          /\ built.ok <=> ~InvalidOntology(raw)
          /\ ErrorsNameItems(built.errors, <<"classes">>, Len(ItemsOf(raw.classes)),
                             InvalidClasses(raw))
          /\ built.ok => ~InvalidOntology(built.value)
    /\ (entity = "Project" /\ built # NoRecord /\ raw.ontology # Absent /\ raw.sensors # Absent) =>
          /\ built.ok <=> /\ ~InvalidOntology(raw.ontology)
                          /\ \A j \in 1..Len(raw.sensors.v) : ~InvalidSensor(raw.sensors.v[j])
          /\ ErrorsNameItems(built.errors, <<"ontology", "classes">>,
                             Len(ItemsOf(raw.ontology.classes)), InvalidClasses(raw.ontology))
          /\ ErrorsNameItems(built.errors, <<"sensors">>, Len(raw.sensors.v),
                             InvalidSensors(raw.sensors.v))
          /\ built.ok => /\ ~InvalidOntology(built.value.ontology)
                         /\ \A j \in 1..Len(built.value.sensors.v) :
                                ~InvalidSensor(built.value.sensors.v[j])

C9_Witness ==
    /\ entity = "Project"
    /\ built # NoRecord
    /\ ~built.ok
    /\ raw.ontology # Absent
    /\ Len(ItemsOf(raw.ontology.classes)) = 2
    /\ ~InvalidClass(raw.ontology.classes.v[1])
    /\ InvalidClass(raw.ontology.classes.v[2])
    /\ built.errors = {Err(<<"ontology", "classes", 1, "attributes", 1, "type">>, "value_error")}

(*------------------------------ DataConfig, Dataset ----------------------*)
\* An input mapping of these two classes is a function from the keys given
\* to Python values, so that keys the class does not declare can be given.
MaxExtras == 2

PyDict(m) == [t |-> "dict", v |-> m]
PyModel(m) == [t |-> "model", v |-> m]

\* DataSource
DataSource == {"azure", "aws", "sdk"}

\* DatasetType, AnnotationFormat, DatasetStatus live in schemas/common.py
DatasetType == {"2d_bounding_box"}
AnnotationFormat == {"coco"}
DatasetStatus == {"processing", "ready"}

Field(name, kind, required, nullable, default, members) ==
    [name |-> name, kind |-> kind, required |-> required, nullable |-> nullable,
     default |-> default, members |-> members]

Str(name) == Field(name, "str", TRUE, FALSE, PyNone, {})
Bool(name) == Field(name, "bool", TRUE, FALSE, PyNone, {})
Optional(name, kind) == Field(name, kind, FALSE, TRUE, PyNone, {})
Enum(name, members) == Field(name, "enum", TRUE, FALSE, PyNone, members)

DataConfig_fields ==
    << Str("storage_url"), Optional("container_name", "str"), Optional("sas_token", "str"),
       Str("data_folder"), Bool("sequential"), Bool("generate_metadata"),
       Optional("description", "str"), Str("type"), Str("annotation_format") >>

Dataset_fields ==
    << Optional("id", "int"),
       Field("project", "Project", TRUE, FALSE, PyNone, {}),
       Field("sensors", "Sensors", TRUE, FALSE, PyNone, {}),
       Str("name"), Enum("type", DatasetType), Enum("data_source", DataSource),
       Enum("annotation_format", AnnotationFormat), Enum("status", DatasetStatus),
       Field("sequential", "bool", FALSE, FALSE, PyBool(FALSE), {}),
       Field("generate_metadata", "bool", FALSE, FALSE, PyBool(FALSE), {}),
       Optional("description", "str"), Optional("file_count", "int"),
       Optional("image_count", "int"), Optional("pcd_count", "int"),
       Optional("created_by", "int"), Optional("container_name", "str"),
       Optional("storage_url", "str") >>

FieldsOf(cls) == IF cls = "DataConfig" THEN DataConfig_fields ELSE Dataset_fields

FieldNames(cls) == {f.name : f \in Range(FieldsOf(cls))}

Config_extra_ignore(cls) == "ignore"

\* class Config: extra = "allow"
Config_extra(cls) == "allow"

Digits == <<"0", "1", "2", "3", "4", "5", "6", "7", "8", "9">>

Parsed(v) == [ok |-> TRUE, value |-> v]
Unparsed == [ok |-> FALSE, value |-> NoRecord]

\* pydantic's validators of the scalar types: each coerces what it can
str_validator(v) ==
    CASE v.t = "str"  -> Parsed(v)
      [] v.t = "int"  -> Parsed(PyStr(Digits[v.v + 1]))
      [] v.t = "bool" -> Parsed(PyStr(IF v.v THEN "True" ELSE "False"))
      [] OTHER        -> Unparsed

bool_validator(v) ==
    CASE v.t = "bool" -> Parsed(v)
      [] v.t = "int" /\ v.v \in {0, 1} -> Parsed(PyBool(v.v = 1))
      [] v.t = "str" /\ v.v \in {"1", "on", "t", "true", "y", "yes"} -> Parsed(PyBool(TRUE))
      [] v.t = "str" /\ v.v \in {"0", "off", "f", "false", "n", "no"} -> Parsed(PyBool(FALSE))
      [] OTHER -> Unparsed

int_validator(v) ==
    CASE v.t = "int"  -> Parsed(v)
      [] v.t = "bool" -> Parsed(PyInt(IF v.v THEN 1 ELSE 0))
      [] v.t = "str" /\ \E d \in 1..Len(Digits) : Digits[d] = v.v
                      -> Parsed(PyInt((CHOOSE d \in 1..Len(Digits) : Digits[d] = v.v) - 1))
      [] OTHER        -> Unparsed

enum_validator(members, v) ==
    IF v.t = "str" /\ v.v \in members THEN Parsed(v) ELSE Unparsed

\* the value of one declared field that is given
parse_field(f, v) ==
    IF v = PyNone
      THEN IF f.nullable THEN Result({}, PyNone)
           ELSE Result({Err(<<f.name>>, "type_error.none.not_allowed")}, NoRecord)
    ELSE IF f.kind = "Project"
      THEN IF v.t # "dict" THEN Result({Err(<<f.name>>, "type_error.dict")}, NoRecord)
           ELSE LET r == validate_Project(v.v)
                IN  Result(Prefixed(<<f.name>>, r.errors), PyModel(r.value))
    ELSE IF f.kind = "Sensors"
      THEN IF v.t # "list" THEN Result({Err(<<f.name>>, "type_error.list")}, NoRecord)
           ELSE validate_sensors([sensors |-> v], "sensors")
    ELSE LET r == CASE f.kind = "str"  -> str_validator(v)
                    [] f.kind = "bool" -> bool_validator(v)
                    [] f.kind = "int"  -> int_validator(v)
                    [] OTHER           -> enum_validator(f.members, v)
         IN  IF r.ok THEN Result({}, r.value)
             ELSE Result({Err(<<f.name>>, "type_error." \o f.kind)}, NoRecord)

\* BaseModel.__init__ of a class with declared fields and Config.extra
validate_open(cls, m) ==
    LET fields == Range(FieldsOf(cls))
        given == {f \in fields : f.name \in DOMAIN m}
        extras == DOMAIN m \ FieldNames(cls)
        errors ==
            {Err(<<f.name>>, "value_error.missing") : f \in {g \in fields \ given : g.required}}
            \cup UNION {parse_field(f, m[f.name]).errors : f \in given}
            \cup IF Config_extra(cls) = "forbid"
                   THEN {Err(<<k>>, "value_error.extra") : k \in extras} ELSE {}
        declared == [n \in FieldNames(cls) |->
                        LET f == CHOOSE g \in fields : g.name = n
                        IN  IF f \in given THEN parse_field(f, m[n]).value ELSE f.default]
        kept == IF Config_extra(cls) = "allow" THEN extras ELSE {}
    IN  Result(errors, [k \in kept |-> m[k]] @@ declared)

\* BaseModel.dict(): declared fields and extras; a nested model becomes a dict
to_dict(v) == IF v.t = "model" THEN PyDict(v.v) ELSE v

dict(value) == [k \in DOMAIN value |-> to_dict(value[k])]

UnknownKeyNames == <<"x_new", "tags", "owner", "zone">>
UnknownKeys == {UnknownKeyNames[i] : i \in 1..MaxExtras}
ExtraValues == {PyStr("v"), PyInt(1), PyNone, PyList(<<PyStr("a")>>)}
Extras == UNION {[K -> ExtraValues] : K \in SUBSET UnknownKeys}

projectMapping ==
    PyDict([name |-> PyStr("P"), ontology |-> [name |-> PyStr("O"), classes |-> Absent],
            sensors |-> PyList(<<[name |-> PyStr("cam0"), type |-> PyStr("camera")]>>)])

\* a mapping holding every required field of the class, with valid values
BaseMapping(cls) ==
    IF cls = "DataConfig"
      THEN [storage_url |-> PyStr("s3://bucket"), data_folder |-> PyStr("raw/"),
            sequential |-> PyBool(FALSE), generate_metadata |-> PyBool(FALSE),
            type |-> PyStr("2d_bounding_box"), annotation_format |-> PyStr("coco")]
      ELSE [project |-> projectMapping,
            sensors |-> PyList(<<[name |-> PyStr("cam0"), type |-> PyStr("camera")]>>),
            name |-> PyStr("ds1"), type |-> PyStr("2d_bounding_box"),
            data_source |-> PyStr("sdk"), annotation_format |-> PyStr("coco"),
            status |-> PyStr("processing"), id |-> PyStr("7")]

SequentialValues == {PyBool(TRUE), PyStr("yes"), PyInt(1), PyStr("maybe")}

\* the base mapping with `sequential` set, at most one key left out, and
\* undeclared keys added
OpenInputs(cls) ==
    { [k \in ((DOMAIN BaseMapping(cls) \cup {"sequential"}) \ dropped) \cup DOMAIN extras |->
          IF k \in DOMAIN extras THEN extras[k]
          ELSE IF k = "sequential" THEN seq
          ELSE BaseMapping(cls)[k]]
        : dropped \in {{}} \cup {{k} : k \in DOMAIN BaseMapping(cls)},
          seq \in SequentialValues,
          extras \in Extras }

InitOpen ==
    /\ IdleCall
    /\ entity \in {"DataConfig", "Dataset"}
    /\ raw \in OpenInputs(entity)
    /\ built = NoRecord
    /\ dumped = NoRecord

ConstructDataConfig ==
    /\ entity = "DataConfig"
    /\ built = NoRecord
    /\ built' = validate_open("DataConfig", raw)
    /\ UNCHANGED <<entity, raw, dumped>>
    /\ UNCHANGED callVars

ConstructDataset ==
    /\ entity = "Dataset"
    /\ built = NoRecord
    /\ built' = validate_open("Dataset", raw)
    /\ UNCHANGED <<entity, raw, dumped>>
    /\ UNCHANGED callVars

\* re-serialising a constructed DataConfig or Dataset
Serialize ==
    /\ entity \in {"DataConfig", "Dataset"}
    /\ built # NoRecord
    /\ built.ok
    /\ dumped = NoRecord
    /\ dumped' = dict(built.value)
    /\ UNCHANGED <<entity, raw, built>>
    /\ UNCHANGED callVars

NextOpen == ConstructDataConfig \/ ConstructDataset \/ Serialize

SpecOpen == InitOpen /\ [][NextOpen]_vars

\* every required field is given, and `sequential` holds something a bool
\* can be read from
RequiredFieldsValid(cls, m) ==
    /\ \A f \in Range(FieldsOf(cls)) : f.required => f.name \in DOMAIN m
    /\ "sequential" \in DOMAIN m => m["sequential"] # PyStr("maybe")

\* C8: a Dataset or DataConfig constructs from a mapping that holds every
\* required field plus keys the class does not declare, and re-serialising
\* it yields each undeclared key with the value it was given.
C8_UnknownKeysRoundTrip ==
    entity \in {"DataConfig", "Dataset"} =>
        /\ (built # NoRecord /\ RequiredFieldsValid(entity, raw)) => built.ok
        /\ dumped # NoRecord =>
              \A k \in DOMAIN raw \ FieldNames(entity) :
                  k \in DOMAIN dumped /\ dumped[k] = raw[k]

C8_Witness ==
    /\ entity = "Dataset"
    /\ dumped # NoRecord
    /\ DOMAIN raw \ FieldNames(entity) = UnknownKeys
    /\ dumped["tags"] = PyList(<<PyStr("a")>>)
    /\ raw["sequential"] = PyStr("yes")
    /\ dumped["sequential"] = PyBool(TRUE)
    /\ dumped["project"].t = "dict"

====
